---- MODULE Spec2Model ----
(***************************************************************************)
(* Model of scrapy_selenium/middlewares.py: SeleniumMiddleware, a Scrapy   *)
(* downloader middleware that serves SeleniumRequests from a pool of       *)
(* Selenium drivers kept in a queue.Queue(maxsize=pool_size).              *)
(*                                                                         *)
(* Drivers are identified by positive integers; 0 stands for "no driver".  *)
(* Every call of process_request is run by one of the callers in Threads;  *)
(* spider_closed is run by the signal handler.  Each queue operation is    *)
(* one atomic step (queue.Queue serialises them under its mutex); the      *)
(* steps of different callers interleave freely.                           *)
(***************************************************************************)
EXTENDS Integers, Sequences, FiniteSets, TLC

\* Bounds of the model.
NumThreads == 2       \* concurrent callers of process_request
MaxPoolSize == 2      \* pool_size ranges over 1..MaxPoolSize
MaxTimeout == 1       \* queue_timeout ranges over 0..MaxTimeout (ticks)
MaxCreated == 2       \* drivers create_driver can still start after __init__

Threads == 1..NumThreads
Drivers == 1..(MaxPoolSize + MaxCreated)
NoDriver == 0

\* Names bound in the module namespace by the import statements (lines 1-10)
\* and the class statements (lines 12, 167).
ModuleNames ==
    {"import_module", "WebDriverWait", "webdriver", "HtmlResponse",
     "NotConfigured", "signals", "UserAgentMiddleware", "random", "Queue",
     "SeleniumRequest", "SeleniumMiddleware", "MyUserAgentMiddleware"}

\* The value None of an optional setting.
None == "None"

\* The values the settings are drawn from: a browser kind Selenium ships a
\* package for with and without an auto-managed path, and a kind it ships no
\* package under that name for; an unset, an empty and a real driver path;
\* an unset and a set command executor.
DriverNames == {"chrome", "firefox", "Chrome"}
ExecutablePaths == {None, "", "/opt/chromedriver"}
CommandExecutors == {None, "http://hub:4444/wd/hub"}

VARIABLES
    driver_name,            \* self.driver_name
    driver_executable_path, \* self.driver_executable_path
    command_executor,       \* self.command_executor
    ctor,           \* position of __init__: "loop", "returned" or "raised"
    mode,           \* branch the last create_driver call of __init__ took
    raised,         \* the exception __init__ ended with, "none" otherwise
    pool_size,      \* self.pool_size
    queue_timeout,  \* self.queue_timeout, in ticks
    driver_pool,    \* self.driver_pool: the FIFO content of the Queue
    nextId,         \* identity the next created driver gets
    terminated,     \* the drivers whose quit() has been called
    pc,             \* pc[t]: position of caller t inside process_request
    request,        \* request[t]: class of the request of caller t's call
    held,           \* held[t]: local variable `driver` of caller t
    fresh,          \* fresh[t]: value of self.create_driver() not yet put
    waited,         \* waited[t]: ticks caller t has been blocked in get
    outcome,        \* outcome[t]: what the call returns or raises
    sdpc,           \* position of spider_closed
    sdheld,         \* local variable `driver` of spider_closed
    closed          \* spider_closed has run to completion at least once

vars == <<driver_name, driver_executable_path, command_executor, ctor, mode, raised,
          pool_size, queue_timeout, driver_pool, nextId, terminated, pc, request, held,
          fresh, waited, outcome, sdpc, sdheld, closed>>

poolVars == <<driver_pool, nextId, terminated>>
sdVars == <<sdpc, sdheld, closed>>
settings == <<driver_name, driver_executable_path, command_executor>>
ctorVars == <<ctor, mode, raised>>
cfgVars == <<pool_size, queue_timeout, settings, ctorVars>>

----------------------------------------------------------------------------
\* queue.Queue

\* Queue._qsize() >= maxsize: put blocks while this holds.
QueueFull(q, maxsize) == Len(q) >= maxsize

\* Queue.empty()
QueueEmpty(q) == Len(q) = 0

\* Queue._put(item)
QueuePut(q, item) == Append(q, item)

\* Mutant: a get that returns the head item and leaves it in the queue.
QueueRest_Peek(q) == q

\* Queue._get(): the item returned is Head(q), the queue keeps the rest.
QueueRest(q) == Tail(q)

\* Mutant: a timed get that gives up at once, whatever the timeout.
TimedOut_NoWait(w, timeout) == TRUE

\* Queue.get(timeout=...): remaining <= 0 once the timeout has been waited out.
TimedOut(w, timeout) == w >= timeout

----------------------------------------------------------------------------
\* create_driver

\* Lines 60-66: import_module finds selenium.webdriver.<driver_name> for the
\* lower-case names of the packages Selenium ships.
SeleniumPackages == {"chrome", "firefox"}

\* str.lower() on the names of DriverNames.
Lower(name) == IF name = "Chrome" THEN "chrome" ELSE name

\* Mutant: the command executor is looked at before the driver path.
SelectMode_RemoteFirst(path, executor) ==
    IF executor # None THEN "remote"
    ELSE IF path # None THEN "local"
    ELSE "auto"

\* Lines 81, 88, 94: the if / elif / else over the two optional settings.
SelectMode(path, executor) ==
    IF path # None THEN "local"
    ELSE IF executor # None THEN "remote"
    ELSE "auto"

\* Line 99: the only kind the webdriver-manager branch binds `driver` for.
AutoManaged(name) == name # "" /\ Lower(name) = "chrome"

\* The branch a call of create_driver reaches: none when the imports of
\* lines 62 and 65 raise.
ModeReached(name, path, executor) ==
    IF name \in SeleniumPackages THEN SelectMode(path, executor) ELSE "none"

\* The ways a call of create_driver can end: it returns a driver, or raises
\* the import error of lines 62/65, the error of `return driver` on the
\* unbound local (line 104), or the error of a browser that does not start.
CreateOutcomes(name, path, executor) ==
    IF name \notin SeleniumPackages THEN {"ModuleNotFoundError"}
    ELSE IF SelectMode(path, executor) = "auto" /\ ~AutoManaged(name)
         THEN {"UnboundLocalError"}
    ELSE {"driver", "WebDriverException"}

----------------------------------------------------------------------------
\* __init__

\* What no step of __init__ touches: no caller and no shutdown has run.
NothingRun ==
    /\ terminated = {}
    /\ pc = [t \in Threads |-> "idle"]
    /\ request = [t \in Threads |-> "none"]
    /\ held = [t \in Threads |-> NoDriver]
    /\ fresh = [t \in Threads |-> NoDriver]
    /\ waited = [t \in Threads |-> 0]
    /\ outcome = [t \in Threads |-> "none"]
    /\ sdpc = "idle"
    /\ sdheld = NoDriver
    /\ closed = FALSE

\* Lines 18-25: the settings are stored and the queue is created empty.
CtorInit ==
    /\ driver_name \in DriverNames
    /\ driver_executable_path \in ExecutablePaths
    /\ command_executor \in CommandExecutors
    /\ pool_size \in 1..MaxPoolSize
    /\ queue_timeout \in 0..MaxTimeout
    /\ driver_pool = << >>
    /\ nextId = 1
    /\ ctor = "loop"
    /\ mode = "none"
    /\ raised = "none"
    /\ NothingRun

\* Lines 26-27, one iteration: create_driver() is called and what it returns
\* is put into the queue; what it raises ends __init__, nothing is caught.
CtorCreate ==
    /\ ctor = "loop"
    /\ Len(driver_pool) < pool_size
    /\ mode' = ModeReached(driver_name, driver_executable_path, command_executor)
    /\ \E r \in CreateOutcomes(driver_name, driver_executable_path, command_executor) :
         IF r = "driver"
         THEN /\ nextId \in Drivers
              /\ driver_pool' = QueuePut(driver_pool, nextId)
              /\ nextId' = nextId + 1
              /\ UNCHANGED <<ctor, raised>>
         ELSE /\ ctor' = "raised"
              /\ raised' = r
              /\ UNCHANGED <<driver_pool, nextId>>
    /\ UNCHANGED <<settings, pool_size, queue_timeout, terminated, pc, request, held,
                   fresh, waited, outcome, sdVars>>

\* Line 26: range(pool_size) is used up, __init__ returns.
CtorReturn ==
    /\ ctor = "loop"
    /\ Len(driver_pool) = pool_size
    /\ ctor' = "returned"
    /\ UNCHANGED <<mode, raised, settings, pool_size, queue_timeout, poolVars, pc,
                   request, held, fresh, waited, outcome, sdVars>>

CtorNext == CtorCreate \/ CtorReturn

CtorSpec == CtorInit /\ [][CtorNext]_vars

\* The middleware in service: __init__ (lines 23-27) has returned with
\* pool_size freshly created drivers in the queue, here from the settings
\* chrome, no driver path and no command executor.
Init ==
    /\ driver_name = "chrome"
    /\ driver_executable_path = None
    /\ command_executor = None
    /\ ctor = "returned"
    /\ mode = "auto"
    /\ raised = "none"
    /\ pool_size \in 1..MaxPoolSize
    /\ queue_timeout \in 0..MaxTimeout
    /\ driver_pool = [i \in 1..pool_size |-> i]
    /\ nextId = pool_size + 1
    /\ terminated = {}
    /\ pc = [t \in Threads |-> "idle"]
    /\ request = [t \in Threads |-> "none"]
    /\ held = [t \in Threads |-> NoDriver]
    /\ fresh = [t \in Threads |-> NoDriver]
    /\ waited = [t \in Threads |-> 0]
    /\ outcome = [t \in Threads |-> "none"]
    /\ sdpc = "idle"
    /\ sdheld = NoDriver
    /\ closed = FALSE

----------------------------------------------------------------------------
\* process_request

\* The classes of request the downloader hands to process_request.
RequestClasses == {"Request", "SeleniumRequest"}

\* Mutant: the isinstance test is missing, every request is rendered.
IsSeleniumRequest_Any(req) == TRUE

\* Line 108: isinstance(request, SeleniumRequest).
IsSeleniumRequest(req) == req = "SeleniumRequest"

\* Lines 106-109: a call begins; a request that is no SeleniumRequest
\* returns None at once, any other goes on to driver_pool.get.
Call(t) ==
    /\ pc[t] \in {"idle", "done"}
    /\ \E req \in RequestClasses :
         /\ request' = [request EXCEPT ![t] = req]
         /\ IF IsSeleniumRequest(req)
            THEN /\ pc' = [pc EXCEPT ![t] = "get"]
                 /\ outcome' = [outcome EXCEPT ![t] = "none"]
            ELSE /\ pc' = [pc EXCEPT ![t] = "done"]
                 /\ outcome' = [outcome EXCEPT ![t] = "None"]
    /\ waited' = [waited EXCEPT ![t] = 0]
    /\ UNCHANGED <<held, fresh, poolVars, sdVars, cfgVars>>

\* Line 113: time passes for a caller blocked in get on an empty queue.
Tick(t) ==
    /\ pc[t] = "get"
    /\ QueueEmpty(driver_pool)
    /\ ~TimedOut(waited[t], queue_timeout)
    /\ waited' = [waited EXCEPT ![t] = @ + 1]
    /\ UNCHANGED <<pc, held, fresh, outcome, poolVars, sdVars, cfgVars, request>>

\* Mutant: a get that also serves a caller whose get has already timed out.
GetDriver_Phantom(t) ==
    /\ pc[t] \in {"get", "except_empty"}
    /\ ~QueueEmpty(driver_pool)
    /\ held' = [held EXCEPT ![t] = Head(driver_pool)]
    /\ driver_pool' = QueueRest(driver_pool)
    /\ pc' = [pc EXCEPT ![t] = IF @ = "get" THEN "drive" ELSE @]
    /\ waited' = [waited EXCEPT ![t] = 0]
    /\ UNCHANGED <<fresh, outcome, nextId, terminated, sdVars, cfgVars, request>>

\* Mutant: a get that hands the head of the queue to every caller waiting.
GetDriver_Broadcast(t) ==
    /\ pc[t] = "get"
    /\ ~QueueEmpty(driver_pool)
    /\ held' = [u \in Threads |-> IF pc[u] = "get" THEN Head(driver_pool) ELSE held[u]]
    /\ driver_pool' = QueueRest(driver_pool)
    /\ pc' = [u \in Threads |-> IF pc[u] = "get" THEN "drive" ELSE pc[u]]
    /\ waited' = [u \in Threads |-> IF pc[u] = "get" THEN 0 ELSE waited[u]]
    /\ UNCHANGED <<fresh, outcome, nextId, terminated, sdVars, cfgVars, request>>

\* Line 113: get returns the head of the queue.
GetDriver(t) ==
    /\ pc[t] = "get"
    /\ ~QueueEmpty(driver_pool)
    /\ held' = [held EXCEPT ![t] = Head(driver_pool)]
    /\ driver_pool' = QueueRest(driver_pool)
    /\ pc' = [pc EXCEPT ![t] = "drive"]
    /\ waited' = [waited EXCEPT ![t] = 0]
    /\ UNCHANGED <<fresh, outcome, nextId, terminated, sdVars, cfgVars, request>>

\* Line 113: get raises queue.Empty when the queue stayed empty for the timeout.
GetTimeout(t) ==
    /\ pc[t] = "get"
    /\ QueueEmpty(driver_pool)
    /\ TimedOut(waited[t], queue_timeout)
    /\ pc' = [pc EXCEPT ![t] = "except_empty"]
    /\ UNCHANGED <<held, fresh, waited, outcome, poolVars, sdVars, cfgVars, request>>

\* What the handler of lines 114-116 does with a pending queue.Empty: the
\* clause `except Empty` looks the name Empty up, then the body looks up
\* logging; a name the module never bound raises NameError.
EmptyHandler ==
    IF "Empty" \in ModuleNames /\ "logging" \in ModuleNames
    THEN "None" ELSE "NameError"

\* Lines 114-116.
ExceptEmpty(t) ==
    /\ pc[t] = "except_empty"
    /\ pc' = [pc EXCEPT ![t] = "done"]
    /\ outcome' = [outcome EXCEPT ![t] = EmptyHandler]
    /\ waited' = [waited EXCEPT ![t] = 0]
    /\ UNCHANGED <<held, fresh, poolVars, sdVars, cfgVars, request>>

\* The steps of lines 119-146 a request runs: cookies, wait_until, screenshot
\* and script are optional; navigation and the final reads always happen.
StepsOf(hasCookies, hasWait, wantShot, hasScript) ==
    {"navigate", "read"}
      \cup (IF hasCookies THEN {"add_cookie"} ELSE {})
      \cup (IF hasWait THEN {"wait"} ELSE {})
      \cup (IF wantShot THEN {"screenshot"} ELSE {})
      \cup (IF hasScript THEN {"script"} ELSE {})

\* The steps at which a driver can raise: every step that runs, but a driver
\* that was quit has no session left and already fails to navigate.
MayFailAt(d, steps) == IF d \in terminated THEN {"navigate"} ELSE steps

\* Lines 118-150: the drive sequence on the caller's own driver.  It either
\* completes (the response is built, control goes to the finally clause) or
\* raises at one of its steps (control goes to the except clause).
Drive(t) ==
    /\ pc[t] = "drive"
    /\ \E hasCookies, hasWait, wantShot, hasScript \in BOOLEAN :
         LET steps == StepsOf(hasCookies, hasWait, wantShot, hasScript) IN
           \/ /\ held[t] \notin terminated
              /\ pc' = [pc EXCEPT ![t] = "finally"]
              /\ outcome' = [outcome EXCEPT ![t] = "HtmlResponse"]
           \/ /\ \E s \in MayFailAt(held[t], steps) :
                   /\ pc' = [pc EXCEPT ![t] = "quit"]
                   /\ outcome' = [outcome EXCEPT ![t] = "RenderError"]
    /\ UNCHANGED <<held, fresh, waited, poolVars, sdVars, cfgVars, request>>

\* driver.quit(): the session of d is gone from now on.
Quit(q, d) == q \cup {d}

\* Line 152: the except clause terminates the caller's driver.
ExceptQuit(t) ==
    /\ pc[t] = "quit"
    /\ terminated' = Quit(terminated, held[t])
    /\ pc' = [pc EXCEPT ![t] = "create"]
    /\ UNCHANGED <<held, fresh, waited, outcome, driver_pool, nextId, sdVars, cfgVars, request>>

\* Line 153, the argument: create_driver() either returns a new driver or
\* raises; a raise leaves the except clause for the finally clause.
ExceptCreate(t) ==
    /\ pc[t] = "create"
    /\ \/ /\ nextId \in Drivers
          /\ fresh' = [fresh EXCEPT ![t] = nextId]
          /\ nextId' = nextId + 1
          /\ pc' = [pc EXCEPT ![t] = "put_new"]
          /\ UNCHANGED outcome
       \/ /\ pc' = [pc EXCEPT ![t] = "finally"]
          /\ outcome' = [outcome EXCEPT ![t] = "CreateError"]
          /\ UNCHANGED <<fresh, nextId>>
    /\ UNCHANGED <<held, waited, driver_pool, terminated, sdVars, cfgVars, request>>

\* Line 153, the call: put blocks while the queue is full.
ExceptPut(t) ==
    /\ pc[t] = "put_new"
    /\ ~QueueFull(driver_pool, pool_size)
    /\ driver_pool' = QueuePut(driver_pool, fresh[t])
    /\ fresh' = [fresh EXCEPT ![t] = NoDriver]
    /\ pc' = [pc EXCEPT ![t] = "finally"]
    /\ UNCHANGED <<held, waited, outcome, nextId, terminated, sdVars, cfgVars, request>>

\* Lines 155-156: the finally clause puts `driver` into the queue on every
\* path, then the call returns its response or re-raises its exception.
FinallyPut(t) ==
    /\ pc[t] = "finally"
    /\ ~QueueFull(driver_pool, pool_size)
    /\ driver_pool' = QueuePut(driver_pool, held[t])
    /\ held' = [held EXCEPT ![t] = NoDriver]
    /\ pc' = [pc EXCEPT ![t] = "done"]
    /\ UNCHANGED <<fresh, waited, outcome, nextId, terminated, sdVars, cfgVars, request>>

----------------------------------------------------------------------------
\* spider_closed

\* Line 158: the spider_closed signal calls the handler.
ClosedStart ==
    /\ sdpc = "idle"
    /\ sdpc' = "loop"
    /\ UNCHANGED <<sdheld, closed, poolVars, pc, held, fresh,
                   waited, outcome, cfgVars, request>>

\* Mutant: a loop that gets first and tests afterwards.
LoopTest_GetFirst(q) == TRUE

\* Line 160: the loop condition `not self.driver_pool.empty()`.
LoopTest(q) == ~QueueEmpty(q)

\* Line 160: the loop is entered again, or spider_closed returns.
ClosedTest ==
    /\ sdpc = "loop"
    /\ IF LoopTest(driver_pool)
       THEN sdpc' = "get" /\ UNCHANGED closed
       ELSE sdpc' = "idle" /\ closed' = TRUE
    /\ UNCHANGED <<sdheld, poolVars, pc, held, fresh, waited, outcome, cfgVars, request>>

\* Line 161: get() without a timeout blocks while the queue is empty.
ClosedGet ==
    /\ sdpc = "get"
    /\ ~QueueEmpty(driver_pool)
    /\ sdheld' = Head(driver_pool)
    /\ driver_pool' = QueueRest(driver_pool)
    /\ sdpc' = "quit"
    /\ UNCHANGED <<closed, nextId, terminated, pc, held, fresh, waited,
                   outcome, cfgVars, request>>

\* Mutant: a shutdown that also quits the drivers the callers hold.
ClosedQuit_AllDrivers ==
    /\ sdpc = "quit"
    /\ terminated' = Quit(terminated, sdheld) \cup ({held[t] : t \in Threads} \ {NoDriver})
    /\ sdheld' = NoDriver
    /\ sdpc' = "loop"
    /\ UNCHANGED <<closed, driver_pool, nextId, pc, held, fresh,
                   waited, outcome, cfgVars, request>>

\* Lines 162-163: the driver taken is quit (it is never None).
ClosedQuit ==
    /\ sdpc = "quit"
    /\ terminated' = IF sdheld # NoDriver THEN Quit(terminated, sdheld) ELSE terminated
    /\ sdheld' = NoDriver
    /\ sdpc' = "loop"
    /\ UNCHANGED <<closed, driver_pool, nextId, pc, held, fresh,
                   waited, outcome, cfgVars, request>>

----------------------------------------------------------------------------

ProcessRequest(t) ==
    \/ GetDriver(t) \/ GetTimeout(t) \/ ExceptEmpty(t) \/ Drive(t)
    \/ ExceptQuit(t) \/ ExceptCreate(t) \/ ExceptPut(t) \/ FinallyPut(t)

SpiderClosed == ClosedTest \/ ClosedGet \/ ClosedQuit

Next ==
    \/ \E t \in Threads : Call(t)
    \/ \E t \in Threads : Tick(t)
    \/ \E t \in Threads : ProcessRequest(t)
    \/ ClosedStart
    \/ SpiderClosed

Spec == Init /\ [][Next]_vars

\* The steps that put nothing into the queue and drain nothing from it: a
\* freshly initialised pool on which callers only acquire and drive.
NextNoRelease ==
    \/ \E t \in Threads : Call(t)
    \/ \E t \in Threads : Tick(t)
    \/ \E t \in Threads :
         \/ GetDriver(t) \/ GetTimeout(t) \/ ExceptEmpty(t) \/ Drive(t)
         \/ ExceptQuit(t) \/ ExceptCreate(t)

NoReleaseSpec == Init /\ [][NextNoRelease]_vars

\* A thread that can take its next step and stays able to takes it: a call
\* that has started keeps running, spider_closed keeps running, and time
\* passes for a blocked get.  Nothing more is assumed: queue.Queue does not
\* order its waiters, so a get or put that another thread's get or put
\* disables again and again may wait for ever.  Whether a request arrives or
\* the spider closes is up to the environment.
FairSpec ==
    /\ Spec
    /\ \A t \in Threads : WF_vars(ProcessRequest(t)) /\ WF_vars(Tick(t))
    /\ WF_vars(SpiderClosed)

\* The steps of a call in a run where every browser starts: create_driver
\* (line 153) returns a driver whenever it is called.
ProcessRequestStarting(t) == ProcessRequest(t) /\ outcome'[t] # "CreateError"

\* The steps of a run in which the downloader hands over one request only
\* (a call starts only while no caller has been called yet) and every
\* browser starts.
OneCallNext ==
    \/ \E t \in Threads : Call(t) /\ \A u \in Threads : pc[u] = "idle"
    \/ \E t \in Threads : Tick(t)
    \/ \E t \in Threads : ProcessRequestStarting(t)
    \/ ClosedStart
    \/ SpiderClosed

\* The runs with one request, under the fairness of FairSpec.
OneCallFairSpec ==
    /\ Init /\ [][OneCallNext]_vars
    /\ \A t \in Threads : WF_vars(ProcessRequestStarting(t)) /\ WF_vars(Tick(t))
    /\ WF_vars(SpiderClosed)

----------------------------------------------------------------------------
\* State functions the properties below are stated with.

\* The callers that hold a driver: from get returning it to putting it back.
Holders == {t \in Threads : held[t] # NoDriver}

\* The drivers idle in the queue.
Idle == {driver_pool[i] : i \in 1..Len(driver_pool)}

\* The callers whose driver counts as checked out: they got it from the
\* queue and have neither put it back nor quit it.
CheckedOut ==
    {t \in Threads : \/ pc[t] \in {"drive", "quit"}
                     \/ pc[t] = "finally" /\ outcome[t] = "HtmlResponse"}

\* The callers between driver.quit() and the end of put(create_driver()).
Replacing ==
    {t \in Threads : \/ pc[t] \in {"create", "put_new"}
                     \/ pc[t] = "finally" /\ outcome[t] = "CreateError"}

PoolTotal == Cardinality(CheckedOut) + Len(driver_pool)

\* spider_closed has not been called yet.
NeverClosed == sdpc = "idle" /\ ~closed

----------------------------------------------------------------------------
\* C1: no driver is ever held by two callers at the same time (nor by a
\* caller and the spider_closed loop), whatever the interleaving.
C1_MutualExclusion ==
    /\ \A t1, t2 \in Threads :
         (t1 # t2 /\ held[t1] # NoDriver) => held[t1] # held[t2]
    /\ \A t \in Threads : held[t] # NoDriver => held[t] # sdheld

\* C1 witness: two callers hold drivers at once, one of them a driver that
\* an earlier failed call quit and put back.
C1_Witness ==
    \E t1, t2 \in Threads :
        /\ t1 # t2
        /\ pc[t1] = "drive" /\ held[t1] \in terminated
        /\ pc[t2] = "drive" /\ held[t2] \notin terminated /\ held[t2] # NoDriver

\* C2: before shutdown, checked-out plus idle drivers number pool_size, or
\* one less per replacement in progress; never more than pool_size.
C2_PoolTotalIsPoolSize ==
    NeverClosed =>
        /\ PoolTotal <= pool_size
        /\ PoolTotal >= pool_size - Cardinality(Replacing)

\* C3: a driver that was quit is never in the idle queue again and is never
\* handed to a caller by a later get.
C3_FailedDriverNeverReused ==
    /\ \A d \in Idle : d \notin terminated
    /\ \A t \in Threads : pc[t] = "drive" => held[t] \notin terminated

\* C4: the callers never hold more than pool_size distinct drivers at once.
C4_HeldAtMostPoolSize ==
    Cardinality({held[t] : t \in Holders}) <= pool_size

\* C5: before shutdown, the put that ends a replacement adds exactly one
\* driver to the idle queue, a new one that was never quit, and brings
\* checked-out plus idle drivers back to pool_size (less one for every other
\* caller still in the middle of its own replacement).
C5_ReplacementRestoresPool ==
    [][\A t \in Threads :
         (NeverClosed /\ NeverClosed' /\ pc[t] = "put_new" /\ pc'[t] = "finally") =>
             /\ fresh[t] # held[t]
             /\ fresh[t] \notin terminated
             /\ driver_pool' = Append(driver_pool, fresh[t])
             /\ PoolTotal' = pool_size - Cardinality(Replacing')]_vars

\* C6: a call whose drive sequence failed eventually ends by raising that
\* failure: it neither hangs nor raises something else.
C6_FailurePropagates ==
    \A t \in Threads :
        (pc[t] = "quit") ~> (pc[t] = "done" /\ outcome[t] = "RenderError")

\* C7: when driver_pool.get times out, process_request returns None and
\* raises nothing.
C7_TimeoutReturnsNone ==
    [][\A t \in Threads :
         (pc[t] = "except_empty" /\ pc'[t] = "done") => outcome'[t] = "None"]_vars

\* The callers whose get ended in queue.Empty.
TimedOutCallers ==
    {t \in Threads : \/ pc[t] = "except_empty"
                     \/ pc[t] = "done" /\ outcome[t] = "NameError"}

\* C8: on a freshly initialised pool with no release, every get that
\* succeeded received a driver of its own, successes and idle drivers add up
\* to pool_size (so at most pool_size gets succeed), a get fails with
\* queue.Empty only when pool_size callers hold a driver and it has waited
\* for the whole queue_timeout, and once more than pool_size callers have
\* all finished their get, exactly pool_size of them hold a driver.
C8_AcquireOnFreshPool ==
    /\ \A t1, t2 \in Holders : t1 # t2 => held[t1] # held[t2]
    /\ Cardinality(Holders) + Len(driver_pool) = pool_size
    /\ \A t \in Threads :
         pc[t] = "except_empty" =>
             /\ Cardinality(Holders) = pool_size
             /\ waited[t] = queue_timeout
    /\ (Holders \cup TimedOutCallers = Threads /\ NumThreads > pool_size) =>
           /\ Cardinality(Holders) = pool_size
           /\ Cardinality(TimedOutCallers) = NumThreads - pool_size

\* C8 witness: pool_size callers hold a driver each and one more caller has
\* waited out a positive timeout and got queue.Empty.
C8_Witness ==
    /\ queue_timeout > 0
    /\ Cardinality(Holders) = pool_size
    /\ Holders \cup TimedOutCallers = Threads
    /\ \E t \in Threads : pc[t] = "except_empty" /\ waited[t] = queue_timeout

\* C9: every driver spider_closed takes from the queue is quit exactly once
\* in its life: the quit of spider_closed is its first one.
C9_ShutdownQuitsOnce ==
    [][(sdpc = "quit" /\ sdpc' = "loop") =>
           (sdheld \notin terminated /\ sdheld \in terminated')]_vars

\* C10: once spider_closed has completed, a get that a caller begins neither
\* returns a driver, nor blocks, nor ends in the timeout outcome.
C10_AcquireAfterShutdownFails ==
    [][\A t \in Threads :
         (closed /\ pc[t] = "get" /\ waited[t] = 0) =>
             /\ pc'[t] # "drive"
             /\ waited'[t] = 0
             /\ pc'[t] # "except_empty"]_vars

\* C11: a call of spider_closed always terminates: whatever the callers of
\* process_request do meanwhile, it returns.
C11_ShutdownTerminates == (sdpc # "idle") ~> (sdpc = "idle")

\* C12: a caller that has its driver and is at one of its puts (the put of
\* the replacement, the put of the finally clause) never has to wait.
C12_PutNeverBlocks ==
    \A t \in Threads :
        pc[t] \in {"put_new", "finally"} => ~QueueFull(driver_pool, pool_size)

\* Caller a failed in the drive sequence and got its replacement, caller b
\* succeeded, on a pool of two with no other failure and no shutdown.
TwoFetches(a, b) ==
    /\ a # b
    /\ pool_size = 2
    /\ NeverClosed
    /\ nextId = 4
    /\ Cardinality(terminated) = 1
    /\ outcome[a] = "RenderError" /\ pc[a] \in {"put_new", "finally", "done"}
    /\ outcome[b] = "HtmlResponse" /\ pc[b] \in {"finally", "done"}

\* C13: with pool_size = 2, one failed and one successful concurrent call,
\* neither call is stuck at a put, and once both are done the idle queue
\* holds exactly two drivers, neither of them quit.
C13_TwoFetchesComplete ==
    \A a, b \in Threads :
        TwoFetches(a, b) =>
            /\ \A t \in {a, b} :
                 pc[t] \in {"put_new", "finally"} => ~QueueFull(driver_pool, pool_size)
            /\ (pc[a] = "done" /\ pc[b] = "done") =>
                   /\ Len(driver_pool) = 2
                   /\ Idle \cap terminated = {}

\* A caller that has waited in get on the empty queue and is still there.
Blocked(t) == pc[t] = "get" /\ waited[t] > 0

\* C15 as claimed: a driver put while a caller is blocked in get leaves the
\* queue only into the hands of a caller waiting in get.
C15_BlockedAcquireObtains ==
    [][((\E b \in Threads : Blocked(b))
          /\ ~QueueEmpty(driver_pool)
          /\ driver_pool' = QueueRest(driver_pool)) =>
             \E t \in Threads : pc[t] = "get" /\ held'[t] = Head(driver_pool)]_vars

\* C15 amended: a driver that leaves the queue goes to exactly one party, a
\* caller in get or spider_closed; that caller goes on to drive it, no other
\* caller and not the queue has it, and the other callers in get stay there.
C15_ReleasedToExactlyOne ==
    [][\A t \in Threads :
         (pc[t] = "get" /\ pc'[t] = "drive") =>
             /\ held'[t] = Head(driver_pool)
             /\ held'[t] \notin Idle'
             /\ sdheld' # held'[t]
             /\ \A u \in Threads \ {t} :
                  /\ held'[u] # held'[t]
                  /\ pc[u] = "get" => (pc'[u] = "get" /\ held'[u] = NoDriver)]_vars

\* C15 witness: a driver has been put into the queue while a caller was
\* blocked in get, and that caller has not taken it yet.
C15_Witness ==
    /\ ~QueueEmpty(driver_pool)
    /\ \E b \in Threads : Blocked(b)

\* C16: a get that times out changes neither the idle queue, nor who holds
\* which driver, nor which drivers are quit or created; and the caller whose
\* get timed out holds no driver afterwards.
C16_TimeoutLeavesNoHold ==
    [][\A t \in Threads :
         /\ ((pc[t] = "get" /\ pc'[t] = "except_empty")
               \/ (pc[t] = "except_empty" /\ pc'[t] = "done")) =>
                UNCHANGED <<driver_pool, held, fresh, terminated, nextId, sdheld>>
         /\ (t \in TimedOutCallers /\ t \in TimedOutCallers') =>
                (held[t] = NoDriver /\ held'[t] = NoDriver)]_vars

\* C16 witness: a caller's get has timed out, a driver has since come back
\* to the queue, and the caller holds nothing.
C16_Witness ==
    \E t \in Threads :
        /\ t \in TimedOutCallers
        /\ held[t] = NoDriver
        /\ ~QueueEmpty(driver_pool)

\* C17: a call of spider_closed that finds the queue empty, as a completed
\* call leaves it, returns at its first test: it takes no driver, quits no
\* driver and leaves the queue empty.
C17_SecondShutdownNoop ==
    [][(sdpc = "loop" /\ QueueEmpty(driver_pool) /\ sdpc' # sdpc) =>
           /\ sdpc' = "idle"
           /\ closed'
           /\ UNCHANGED <<driver_pool, terminated, sdheld, held>>]_vars

\* C17 witness: spider_closed has completed once, is called again and is
\* at its loop test with the queue still empty.
C17_Witness == closed /\ sdpc = "loop" /\ QueueEmpty(driver_pool)

\* C18: a call for a request that is no SeleniumRequest returns None in the
\* same step and changes nothing of the pool, whatever the state of the pool.
C18_PlainRequestUntouched ==
    [][\A t \in Threads :
         (pc[t] \in {"idle", "done"} /\ request'[t] = "Request"
            /\ <<pc[t], request[t], outcome[t]>> # <<pc'[t], request'[t], outcome'[t]>>) =>
             /\ pc'[t] = "done"
             /\ outcome'[t] = "None"
             /\ UNCHANGED <<driver_pool, held, fresh, terminated, nextId, sdVars>>]_vars

\* C18 witness: a plain request has returned None while the pool is
\* exhausted and shut down.
C18_Witness ==
    \E t \in Threads :
        /\ request[t] = "Request" /\ pc[t] = "done" /\ outcome[t] = "None"
        /\ closed
        /\ QueueEmpty(driver_pool)
        /\ \E u \in Threads : pc[u] = "drive"

\* C20: spider_closed quits only the driver it took from the queue and never
\* touches what the callers hold; a successful call puts its driver back as
\* it is.
C20_ShutdownQuitsOnlyDrained ==
    [][/\ (sdpc = "quit" /\ sdpc' = "loop") =>
            /\ terminated' = terminated \cup {sdheld}
            /\ \A t \in Threads : held[t] # NoDriver => held[t] # sdheld
            /\ held' = held
       /\ \A t \in Threads :
            (pc[t] = "finally" /\ outcome[t] = "HtmlResponse" /\ pc'[t] = "done") =>
                /\ driver_pool' = Append(driver_pool, held[t])
                /\ terminated' = terminated]_vars

\* C20 witness: spider_closed has completed, and the queue again holds a
\* driver that was never quit, which a caller in get is about to receive.
C20_Witness ==
    /\ closed /\ sdpc = "idle"
    /\ ~QueueEmpty(driver_pool)
    /\ Head(driver_pool) \notin terminated
    /\ \E t \in Threads : pc[t] = "get"

\* The drivers create_driver has returned so far.
Created == 1..(nextId - 1)

\* C14: when __init__ ends with the exception of a failed create_driver,
\* every driver it created before has been quit.
C14_FailedInitQuitsCreated ==
    ctor = "raised" => Created \subseteq terminated

\* C19: create_driver takes the local branch when the driver path is set,
\* whatever the command executor; else the remote branch when the command
\* executor is set; else the auto-managed branch, which gives a driver for
\* chrome only and raises for every other kind.  A kind Selenium has no
\* package for gives no driver in any branch.
C19_ModePrecedence ==
    (Len(driver_pool) > 0 \/ ctor = "raised") =>
        IF driver_name \in SeleniumPackages
        THEN /\ mode \in {"local", "remote", "auto"}
             /\ driver_executable_path # None => mode = "local"
             /\ (driver_executable_path = None /\ command_executor # None) =>
                    mode = "remote"
             /\ (driver_executable_path = None /\ command_executor = None) =>
                    /\ mode = "auto"
                    /\ Len(driver_pool) > 0 => driver_name = "chrome"
                    /\ driver_name # "chrome" =>
                           /\ ctor = "raised"
                           /\ raised = "UnboundLocalError"
                           /\ Created = {}
        ELSE /\ mode = "none"
             /\ ctor = "raised"
             /\ raised = "ModuleNotFoundError"
             /\ Created = {}

\* C19 witness: both the driver path and the command executor are set and
\* create_driver has returned a driver from the local branch.
C19_Witness ==
    /\ driver_executable_path # None
    /\ command_executor # None
    /\ mode = "local"
    /\ Len(driver_pool) > 0

====
